---- MODULE Spec2Model ----
(***************************************************************************)
(* A model of scripts/blender/obj_to_glb.py: one run of the script, from   *)
(* the parsed arguments to the process exit.                               *)
(*                                                                         *)
(* A path is the sequence of its pathlib `parts`; a part is the pair       *)
(* <<stem, suffix>> of a name, so that `stem`, `suffix` and `with_suffix`  *)
(* are computed on the name the way pathlib computes them.  The root "/"   *)
(* is the part <<"/", "">>; a path is absolute iff its first part is the   *)
(* root.                                                                   *)
(***************************************************************************)
EXTENDS Integers, Sequences, FiniteSets, TLC

VARIABLES
    files_or_directories,  \* args.files_or_directories (a list of paths)
    recursive,             \* args.recursive
    out_dir,               \* args.out_dir (None or a path)
    dry_run,               \* args.dry_run
    pc,                    \* position of the script
    idx,                   \* index of the next root of the collection loop
    all_input_paths,       \* the set all_input_paths
    repeat_input_names,    \* the duplicate groups still to be resolved
    paths,                 \* the group the while loop is working on ({}: none)
    depth,                 \* depth of the while loop
    settled,               \* ghost: group -> depth at which its loop ended
    special_output_path,   \* the dict special_output_path
    reported,              \* the input_paths printed before exit(1)
    printed,               \* the (input, output) lines printed by the dry run
    remaining,             \* sources the batch loop has not visited yet
    input_path,            \* the source of the current batch iteration
    counter,               \* counter
    errors,                \* the dict errors: source -> "import" | "export"
    resets,                \* ghost: number of scene resets performed
    import_calls,          \* ghost: source -> number of import calls
    import_ok,             \* ghost: sources whose import returned normally
    export_calls,          \* ghost: set of <<source, filepath>> export calls
    export_ok,             \* ghost: sources whose export returned normally
    written,               \* ghost: files the export capability has written
    exit_code              \* -1 while running, then the exit code

vars == <<files_or_directories, recursive, out_dir, dry_run, pc, idx,
          all_input_paths, repeat_input_names, paths, depth, settled,
          special_output_path, reported, printed, remaining, input_path,
          counter, errors, resets, import_calls, import_ok, export_calls,
          export_ok, written, exit_code>>

args == <<files_or_directories, recursive, out_dir, dry_run>>
resolution == <<repeat_input_names, paths, depth, settled,
                special_output_path, reported>>
batch == <<remaining, input_path, counter, errors, resets, import_calls,
           import_ok, export_calls, export_ok, written>>

----------------------------------------------------------------------------
(* Bounds of the model.                                                    *)

\* The longest list of positional arguments the model draws.
MaxRoots == 2

----------------------------------------------------------------------------
(* Paths.                                                                  *)

Root == <<"/", "">>
Dir(n) == <<n, "">>
Name(s, x) == <<s, x>>

\* None, for args.out_dir; no -o value of the model is the empty path.
None == <<>>

Stem(p) == p[Len(p)][1]
Suffix(p) == p[Len(p)][2]

\* PurePath.with_suffix: the last part keeps its stem and gets the suffix.
WithSuffix(p, sfx) == [p EXCEPT ![Len(p)] = <<p[Len(p)][1], sfx>>]

\* path_parts[-n:] for n <= len(path_parts)
LastParts(p, n) == SubSeq(p, Len(p) - n + 1, Len(p))

\* PurePath.joinpath: an absolute argument replaces the base.
JoinPath(base, parts) ==
    IF parts # <<>> /\ parts[1] = Root THEN parts ELSE base \o parts

\* dict[key] = value
Put(d, k, v) == [x \in DOMAIN d \cup {k} |-> IF x = k THEN v ELSE d[x]]
EmptyDict == [x \in {} |-> {}]

\* The orders in which a set can be iterated.
RECURSIVE Orderings(_)
Orderings(S) ==
    IF S = {} THEN {<<>>}
    ELSE UNION {{<<x>> \o t : t \in Orderings(S \ {x})} : x \in S}

----------------------------------------------------------------------------
(* The file system the script runs on: every existing path and its kind.   *)

FS ==
    LET a == <<Root, Dir("a")>>
        b == <<Root, Dir("b")>>
    IN  (<<Root>> :> "dir")
        @@ (<<Root, Name("model", ".obj")>> :> "file")
        @@ (<<Root, Name("model", ".txt")>> :> "file")
        @@ (<<Root, Name("pipe", "")>> :> "other")
        @@ (a :> "dir")
        @@ (a \o <<Name("model", ".obj")>> :> "file")
        @@ (a \o <<Name("other", ".obj")>> :> "file")
        @@ (a \o <<Name("notes", ".txt")>> :> "file")
        @@ (a \o <<Dir("sub")>> :> "dir")
        @@ (a \o <<Dir("sub"), Name("model", ".obj")>> :> "file")
        @@ (b :> "dir")
        @@ (b \o <<Name("model", ".obj")>> :> "file")
        @@ (b \o <<Dir("sub")>> :> "dir")
        @@ (b \o <<Dir("sub"), Name("model", ".obj")>> :> "file")
        @@ (<<Root, Dir("c")>> :> "dir")
        @@ (<<Root, Dir("c"), Name("other", ".obj")>> :> "file")

Missing == <<Root, Name("missing", ".obj")>>

\* The positional arguments the model draws from (already absolute).
RootChoices ==
    << <<Root, Dir("a")>>,
       <<Root, Dir("b")>>,
       <<Root, Dir("c")>>,
       <<Root, Dir("a"), Dir("sub")>>,
       <<Root, Dir("b"), Dir("sub")>>,
       <<Root, Name("model", ".obj")>>,
       <<Root, Name("model", ".txt")>>,
       <<Root, Dir("a"), Name("model", ".obj")>>,
       <<Root, Dir("b"), Name("model", ".obj")>>,
       <<Root, Name("pipe", "")>>,
       Missing >>

\* The argument lists the model draws: up to MaxRoots of the choices, each
\* list in the order of RootChoices and without repetition (the collection
\* loop only adds to a set, whatever the order of the list).
RootLists ==
    UNION { { [i \in 1..n |-> RootChoices[f[i]]] :
                f \in { g \in [1..n -> 1..Len(RootChoices)] :
                          \A i \in 1..(n - 1) : g[i] < g[i + 1] } }
            : n \in 1..MaxRoots }

\* The -o values the model draws from.
OutDirs == {None, <<Dir("out")>>}

IsDir(p) == p \in DOMAIN FS /\ FS[p] = "dir"
IsFile(p) == p \in DOMAIN FS /\ FS[p] = "file"

\* directory.iterdir()
IterDir(d) ==
    {p \in DOMAIN FS : Len(p) = Len(d) + 1 /\ SubSeq(p, 1, Len(d)) = d}

\* The suffix a directory child must have to be collected.
MeshSuffix == ".obj"

\* A collector that descends whether or not --recursive was given.
DescendAlways(rec) == TRUE

\* Whether get_files_from_directory descends into a child directory.
Descend(rec) == rec

\* get_files_from_directory: the paths it adds to all_input_paths.
RECURSIVE get_files_from_directory(_, _)
get_files_from_directory(directory, rec) ==
    UNION { IF IsFile(path)
              THEN (IF Suffix(path) = MeshSuffix THEN {path} ELSE {})
            ELSE IF IsDir(path)
              THEN (IF Descend(rec)
                      THEN get_files_from_directory(path, rec)
                      ELSE {})
            ELSE {}
          : path \in IterDir(directory) }

----------------------------------------------------------------------------
Init ==
    /\ files_or_directories \in RootLists
    /\ recursive \in BOOLEAN
    /\ out_dir \in OutDirs
    /\ dry_run \in BOOLEAN
    /\ pc = "collect"
    /\ idx = 1
    /\ all_input_paths = {}
    /\ repeat_input_names = {}
    /\ paths = {}
    /\ depth = 0
    /\ settled = EmptyDict
    /\ special_output_path = EmptyDict
    /\ reported = {}
    /\ printed = {}
    /\ remaining = {}
    /\ input_path = None
    /\ counter = 0
    /\ errors = EmptyDict
    /\ resets = 0
    /\ import_calls = EmptyDict
    /\ import_ok = {}
    /\ export_calls = {}
    /\ export_ok = {}
    /\ written = {}
    /\ exit_code = -1

\* One iteration of the loop over args.files_or_directories.
CollectRoot ==
    /\ pc = "collect"
    /\ idx <= Len(files_or_directories)
    /\ LET path == files_or_directories[idx] IN
         IF path \notin DOMAIN FS
           THEN \* path.resolve(strict=True) raises: the script dies
                /\ pc' = "exit"
                /\ exit_code' = 1
                /\ UNCHANGED <<idx, all_input_paths>>
           ELSE /\ all_input_paths' =
                     IF IsDir(path)
                       THEN all_input_paths
                              \cup get_files_from_directory(path, recursive)
                     ELSE IF IsFile(path)
                       THEN all_input_paths \cup {path}
                     ELSE all_input_paths
                /\ idx' = idx + 1
                /\ UNCHANGED <<pc, exit_code>>
    /\ UNCHANGED <<args, resolution, printed, batch>>

----------------------------------------------------------------------------
(* Output resolution (lines 89-145).                                       *)

\* A grouping that keeps the stems of a single source as well.
IsRepeatedOrSingle(group) == Cardinality(group) >= 1

\* Whether a stem's list of paths is kept as a duplicate group (line 96).
IsRepeated(group) == Cardinality(group) > 1

\* repeat_input_names: the sources grouped by stem, duplicate groups only.
DuplicateGroups(sources) ==
    {g \in {{p \in sources : Stem(p) = Stem(q)} : q \in sources} :
        IsRepeated(g)}

\* The value depth has before the while loop's first `depth += 1`.
StartDepth == 1

\* The suffix of every output.
TargetSuffix == ".glb"

\* A candidate built from the first parts of the path, not the last.
CandidatePartsFromFront(p, d) == SubSeq(p, 1, d)

\* The parts of p the candidate of the given depth is built from.
CandidateParts(p, d) == LastParts(p, d)

\* Lines 113-116: the candidate output of p at a depth p is long enough for.
Candidate(p, d) ==
    WithSuffix(JoinPath(<<>>, CandidateParts(p, d)), TargetSuffix)

\* Lines 106-117: the key and the value one source contributes to
\* suggested_output_paths.
Suggestion(p, d) ==
    IF Len(p) < d
      THEN [key |-> p, val |-> WithSuffix(p, TargetSuffix)]
      ELSE [key |-> Candidate(p, d), val |-> p]

\* dict.setdefault(k, []).append(v) on a dict kept in insertion order.
SetDefaultAppend(d, k, v) ==
    IF \E i \in 1..Len(d) : d[i].key = k
      THEN [i \in 1..Len(d) |->
              IF d[i].key = k
                THEN [key |-> k, vals |-> Append(d[i].vals, v)]
                ELSE d[i]]
      ELSE Append(d, [key |-> k, vals |-> <<v>>])

\* suggested_output_paths after the for loop over a group (in list order).
RECURSIVE SuggestedOutputPaths(_, _)
SuggestedOutputPaths(order, d) ==
    IF order = <<>> THEN <<>>
    ELSE LET n == Len(order)
             s == Suggestion(order[n], d)
         IN  SetDefaultAppend(SuggestedOutputPaths(SubSeq(order, 1, n - 1), d),
                              s.key, s.val)

\* maximum_depth_reached after the for loop.
MaximumDepthReached(group, d) == \A p \in group : Len(p) < d

\* Lines 131-132, for the items of suggested_output_paths in order.
RECURSIVE AssignSpecial(_, _, _)
AssignSpecial(special, suggested, out) ==
    IF suggested = <<>> THEN special
    ELSE LET e == suggested[1] IN
         AssignSpecial(Put(special, e.vals[1], JoinPath(out, e.key)),
                       Tail(suggested), out)

\* get_output_path
get_output_path(p, out, special) ==
    IF out = None THEN WithSuffix(p, TargetSuffix)
    ELSE IF p \in DOMAIN special THEN special[p]
    ELSE JoinPath(out, WithSuffix(<<p[Len(p)]>>, TargetSuffix))

OutputOf(p) == get_output_path(p, out_dir, special_output_path)

\* Lines 89-96, once the collection loop is over.
GroupDuplicates ==
    /\ pc = "collect"
    /\ idx > Len(files_or_directories)
    /\ repeat_input_names' =
         IF out_dir # None THEN DuplicateGroups(all_input_paths) ELSE {}
    /\ pc' = "resolve"
    /\ UNCHANGED <<args, idx, all_input_paths, paths, depth, settled,
                   special_output_path, reported, printed, batch, exit_code>>

\* Lines 97-100: the for loop takes the next duplicate group.
BeginGroup ==
    /\ pc = "resolve"
    /\ paths = {}
    /\ \E g \in repeat_input_names :
         /\ paths' = g
         /\ repeat_input_names' = repeat_input_names \ {g}
    /\ depth' = StartDepth
    /\ UNCHANGED <<args, pc, idx, all_input_paths, settled,
                   special_output_path, reported, printed, batch, exit_code>>

\* Lines 101-132: one iteration of the while loop.  The list of the group
\* is in the iteration order of the set all_input_paths, which is any order.
ResolveIteration ==
    /\ pc = "resolve"
    /\ paths # {}
    /\ \E order \in Orderings(paths) :
         LET d == depth + 1
             suggested == SuggestedOutputPaths(order, d)
             clashes == {i \in 1..Len(suggested) : Len(suggested[i].vals) > 1}
             duplicate_exists == clashes # {}
         IN  IF duplicate_exists /\ MaximumDepthReached(paths, d)
               THEN \* exit(1)
                    /\ \E i \in clashes :
                         reported' = {suggested[i].vals[j] :
                                        j \in 1..Len(suggested[i].vals)}
                    /\ pc' = "exit"
                    /\ exit_code' = 1
                    /\ depth' = d
                    /\ UNCHANGED <<paths, settled, special_output_path>>
             ELSE IF duplicate_exists
               THEN /\ depth' = d
                    /\ UNCHANGED <<pc, exit_code, paths, settled,
                                   special_output_path, reported>>
             ELSE /\ special_output_path' =
                       AssignSpecial(special_output_path, suggested, out_dir)
                  /\ settled' = Put(settled, paths, d)
                  /\ paths' = {}
                  /\ depth' = d
                  /\ UNCHANGED <<pc, exit_code, reported>>
    /\ UNCHANGED <<args, idx, all_input_paths, repeat_input_names, printed,
                   batch>>

ResolutionDone ==
    pc = "resolve" /\ paths = {} /\ repeat_input_names = {}

----------------------------------------------------------------------------
(* Dry run (lines 147-150) and the batch loop (lines 152-185).             *)

\* A script that never honours --dry-run.
DryRunIgnored(flag) == FALSE

\* The test of line 147.
IsDryRun(flag) == flag

DryRun ==
    /\ ResolutionDone
    /\ IsDryRun(dry_run)
    /\ printed' = {<<p, OutputOf(p)>> : p \in all_input_paths}
    /\ pc' = "exit"
    /\ exit_code' = 0
    /\ UNCHANGED <<args, idx, all_input_paths, resolution, batch>>

\* Lines 152-154.
StartBatch ==
    /\ ResolutionDone
    /\ ~IsDryRun(dry_run)
    /\ remaining' = all_input_paths
    /\ counter' = 0
    /\ errors' = EmptyDict
    /\ pc' = "loop"
    /\ UNCHANGED <<args, idx, all_input_paths, resolution, printed,
                   input_path, resets, import_calls, import_ok, export_calls,
                   export_ok, written, exit_code>>

\* Lines 155-162: the for loop takes the next source and clears the scene.
ResetScene ==
    /\ pc = "loop"
    /\ \E p \in remaining :
         /\ input_path' = p
         /\ remaining' = remaining \ {p}
    /\ counter' = counter + 1
    /\ resets' = resets + 1
    /\ pc' = "import"
    /\ UNCHANGED <<args, idx, all_input_paths, resolution, printed, errors,
                   import_calls, import_ok, export_calls, export_ok, written,
                   exit_code>>

\* An iteration that exports whatever the import did.
AfterImportAlwaysExport(ok) == "export"

\* Where the iteration goes after the import call returned or raised.
AfterImport(ok) == IF ok THEN "export" ELSE "loop"

\* A handler that swallows the import's exception without recording it.
OnImportErrorDropped(errs, p) == errs

\* Lines 179-180: the handler of an exception raised by the import.
OnImportError(errs, p) == Put(errs, p, "import")

\* Lines 177-178: the handler of an exception raised by the export.
OnExportError(errs, p) == Put(errs, p, "export")

\* Lines 163-168 and 179-180: the import call, which returns or raises.
ImportObj ==
    /\ pc = "import"
    /\ import_calls' =
         Put(import_calls, input_path,
             IF input_path \in DOMAIN import_calls
               THEN import_calls[input_path] + 1 ELSE 1)
    /\ \E ok \in BOOLEAN :
         /\ import_ok' = IF ok THEN import_ok \cup {input_path} ELSE import_ok
         /\ errors' = IF ok THEN errors ELSE OnImportError(errors, input_path)
         /\ pc' = AfterImport(ok)
    /\ UNCHANGED <<args, idx, all_input_paths, resolution, printed, remaining,
                   input_path, counter, resets, export_calls, export_ok,
                   written, exit_code>>

\* Line 171: the filepath handed to the export.
ExportTarget(p) == OutputOf(p)

\* Lines 170-178: the export call, which returns or raises.
ExportGltf ==
    /\ pc = "export"
    /\ LET output_path == ExportTarget(input_path) IN
         /\ export_calls' = export_calls \cup {<<input_path, output_path>>}
         /\ \E ok \in BOOLEAN :
              /\ written' = IF ok THEN written \cup {output_path} ELSE written
              /\ export_ok' =
                   IF ok THEN export_ok \cup {input_path} ELSE export_ok
              /\ errors' =
                   IF ok THEN errors ELSE OnExportError(errors, input_path)
    /\ pc' = "loop"
    /\ UNCHANGED <<args, idx, all_input_paths, resolution, printed, remaining,
                   input_path, counter, resets, import_calls, import_ok,
                   exit_code>>

\* Lines 182-185: the loop is over; the errors are printed and the script ends.
Report ==
    /\ pc = "loop"
    /\ remaining = {}
    /\ pc' = "exit"
    /\ exit_code' = 0
    /\ UNCHANGED <<args, idx, all_input_paths, resolution, printed, batch>>

Next ==
    \/ CollectRoot
    \/ GroupDuplicates
    \/ BeginGroup
    \/ ResolveIteration
    \/ DryRun
    \/ StartBatch
    \/ ResetScene
    \/ ImportObj
    \/ ExportGltf
    \/ Report

Spec == Init /\ [][Next]_vars

----------------------------------------------------------------------------
(* Vocabulary of the properties.                                           *)

Sources == all_input_paths

\* The script died on a root that does not exist.
Crashed == pc = "exit" /\ exit_code = 1 /\ idx <= Len(files_or_directories)

\* The collection loop has run to its end.
Collected == idx > Len(files_or_directories)

\* Resolution is over and did not fail.
Resolved ==
    \/ ResolutionDone
    \/ pc \in {"loop", "import", "export"}
    \/ (pc = "exit" /\ exit_code = 0)

\* The batch loop has been entered.
InBatch == pc \in {"loop", "import", "export"} \/ (pc = "exit" /\ counter > 0)

\* The batch loop has run to its end.
BatchOver == pc = "exit" /\ exit_code = 0 /\ ~dry_run

SharedStem(p) == \E q \in Sources \ {p} : Stem(q) = Stem(p)

\* The sources that share the stem of p.
StemClass(p) == {q \in Sources : Stem(q) = Stem(p)}

Naive(p) == out_dir \o <<Name(Stem(p), ".glb")>>

\* The last d parts of p with the extension replaced, as a relative path.
Trailing(p, d) == WithSuffix(SubSeq(p, Len(p) - d + 1, Len(p)), ".glb")

PairwiseDistinct(S, d) ==
    \A p, q \in S : p # q => Trailing(p, d) # Trailing(q, d)

\* o is out followed by one or more relative parts.
Under(o, out) ==
    /\ Len(o) > Len(out)
    /\ SubSeq(o, 1, Len(out)) = out
    /\ \A i \in (Len(out) + 1)..Len(o) : o[i] # Root

ExportedSources == {c[1] : c \in export_calls}

A == <<Root, Dir("a")>>
B == <<Root, Dir("b")>>
Out == <<Dir("out")>>

----------------------------------------------------------------------------
(* C1: with an out-dir and at least one duplicate group, a resolution that *)
(* returns a mapping gives pairwise distinct output paths.                 *)
C1_DistinctOutputs ==
    (out_dir # None /\ Resolved /\ \E p \in Sources : SharedStem(p))
    => \A p, q \in Sources : p # q => OutputOf(p) # OutputOf(q)

(* C2: when the depth of a duplicate group has grown until no source of    *)
(* the group has parts left to add and two of its sources still collide,   *)
(* the run is in the failure outcome: the group is reported, the exit code *)
(* is 1, and nothing was reset, imported, exported or printed.             *)
C2_UnresolvableFails ==
    \A p \in Sources :
        LET g == StemClass(p)
            exhausted ==
              \/ (g = paths /\ MaximumDepthReached(g, depth))
              \/ (g \in DOMAIN settled /\ MaximumDepthReached(g, settled[g]))
        IN  (out_dir # None /\ exhausted
               /\ \E q \in g : q # p /\ OutputOf(q) = OutputOf(p))
            => /\ pc = "exit"
               /\ exit_code = 1
               /\ reported # {}
               /\ resets = 0
               /\ import_calls = EmptyDict
               /\ export_calls = {}
               /\ printed = {}

(* C3: without an out-dir every output is the source with the extension    *)
(* replaced by .glb, and no two distinct sources get the same output.      *)
C3_NextToSourceDistinct ==
    (out_dir = None /\ Collected)
    => /\ \A p \in Sources : OutputOf(p) = WithSuffix(p, ".glb")
       /\ \A p, q \in Sources : p # q => OutputOf(p) # OutputOf(q)

(* C4: in the batch loop every source is attempted exactly once, a failed  *)
(* import or export stops nothing, no error leaves the loop, and at the    *)
(* end the errors hold an entry for exactly the sources whose import or    *)
(* export failed.                                                          *)
C4_FailureIsolation ==
    InBatch =>
    /\ exit_code # 1
    /\ \A p \in DOMAIN import_calls : import_calls[p] = 1
    /\ ExportedSources \subseteq import_ok
    /\ export_ok \subseteq ExportedSources
    /\ pc \in {"loop", "exit"} =>
         /\ DOMAIN import_calls = Sources \ remaining
         /\ ExportedSources = import_ok
         /\ DOMAIN errors = (DOMAIN import_calls) \ export_ok
         /\ \A p \in DOMAIN errors :
              errors[p] = IF p \in import_ok THEN "export" ELSE "import"
    /\ pc = "exit" =>
         /\ remaining = {}
         /\ DOMAIN import_calls = Sources
         /\ counter = Cardinality(Sources)

C4_Witness ==
    /\ BatchOver
    /\ Cardinality(Sources) = 3
    /\ \E p, q \in Sources :
         /\ p # q
         /\ p \in DOMAIN errors /\ errors[p] = "import"
         /\ q \in DOMAIN errors /\ errors[q] = "export"
         /\ export_ok = Sources \ {p, q}

(* C5: a duplicate group all of whose sources have more parts than the     *)
(* settled depth settles at the smallest depth >= 2 at which the last      *)
(* `depth` parts (extension replaced) are pairwise distinct, and each      *)
(* source is mapped to out-dir joined with exactly that candidate; two     *)
(* sources a/model.obj and b/model.obj settle at depth 2 as                *)
(* out/a/model.glb and out/b/model.glb.                                    *)
C5_SmallestDistinguishingDepth ==
    /\ \A g \in DOMAIN settled :
         LET d == settled[g] IN
         (\A p \in g : Len(p) > d)
         => /\ d >= 2
            /\ PairwiseDistinct(g, d)
            /\ \A e \in 2..(d - 1) : ~PairwiseDistinct(g, e)
            /\ \A p \in g : OutputOf(p) = out_dir \o Trailing(p, d)
    /\ ( /\ out_dir = Out
         /\ Resolved
         /\ Sources = {A \o <<Name("model", ".obj")>>,
                       B \o <<Name("model", ".obj")>>} )
       => /\ settled = (Sources :> 2)
          /\ OutputOf(A \o <<Name("model", ".obj")>>)
               = <<Dir("out"), Dir("a"), Name("model", ".glb")>>
          /\ OutputOf(B \o <<Name("model", ".obj")>>)
               = <<Dir("out"), Dir("b"), Name("model", ".glb")>>

C5_Witness ==
    /\ out_dir = Out
    /\ Resolved
    /\ Sources = {A \o <<Name("model", ".obj")>>,
                  B \o <<Name("model", ".obj")>>}
    /\ OutputOf(A \o <<Name("model", ".obj")>>)
         = <<Dir("out"), Dir("a"), Name("model", ".glb")>>

\* The same case at a depth above 2: a/sub/model.obj and b/sub/model.obj.
C5_WitnessDepth3 ==
    \E g \in DOMAIN settled :
        /\ settled[g] = 3
        /\ \A p \in g : Len(p) > 3

(* C6: with an out-dir, a source whose base name no other source shares is *)
(* mapped to out-dir/<name>.glb whatever the duplicate groups settled on,  *)
(* and a source set without shared base names records no special entry.    *)
C6_UniqueNamesNaive ==
    out_dir # None =>
    /\ Resolved => \A p \in Sources : ~SharedStem(p) => OutputOf(p) = Naive(p)
    /\ (Collected /\ \A p \in Sources : ~SharedStem(p))
         => /\ special_output_path = EmptyDict
            /\ settled = EmptyDict
            /\ paths = {}

C6_Witness ==
    /\ out_dir # None
    /\ Resolved
    /\ \E g \in DOMAIN settled : settled[g] >= 3
    /\ \E p \in Sources : ~SharedStem(p) /\ OutputOf(p) = Naive(p)

(* C7: a dry run never resets, imports, exports or writes, and when        *)
(* resolution succeeds it prints the mapping of every source and exits     *)
(* with code 0.                                                            *)
C7_DryRunTouchesNothing ==
    dry_run =>
    /\ resets = 0
    /\ counter = 0
    /\ import_calls = EmptyDict
    /\ export_calls = {}
    /\ written = {}
    /\ pc \notin {"loop", "import", "export"}
    /\ (pc = "exit" /\ ~Crashed /\ reported = {})
         => /\ exit_code = 0
            /\ printed = {<<p, OutputOf(p)>> : p \in Sources}

C7_Witness ==
    /\ dry_run
    /\ pc = "exit"
    /\ exit_code = 0
    /\ Cardinality(printed) >= 3
    /\ settled # EmptyDict

(* C8: the collected set is every root that is a file, every .obj file     *)
(* that is a direct child of a root directory and, only with --recursive,  *)
(* every .obj file below a root directory; nothing else.                   *)
C8_CollectedSet ==
    (Collected /\ ~Crashed) =>
    LET roots == {files_or_directories[i] :
                    i \in 1..Len(files_or_directories)}
    IN  Sources =
          {r \in roots : r \in DOMAIN FS /\ FS[r] = "file"}
          \cup
          {f \in DOMAIN FS :
             /\ FS[f] = "file"
             /\ f[Len(f)][2] = ".obj"
             /\ \E r \in roots :
                  /\ r \in DOMAIN FS /\ FS[r] = "dir"
                  /\ Len(f) > Len(r)
                  /\ SubSeq(f, 1, Len(r)) = r
                  /\ (Len(f) = Len(r) + 1 \/ recursive)}

\* Roots /a and /model.txt without --recursive: the explicit .txt file is
\* in, a/notes.txt and the nested a/sub/model.obj are out.
C8_Witness ==
    /\ Collected
    /\ ~recursive
    /\ <<Root, Name("model", ".txt")>> \in Sources
    /\ A \o <<Name("model", ".obj")>> \in Sources
    /\ A \o <<Name("notes", ".txt")>> \notin Sources
    /\ A \o <<Dir("sub"), Name("model", ".obj")>> \notin Sources

\* Roots /a and /a/model.obj with --recursive: the nested file is in.
C8_WitnessRecursive ==
    /\ Collected
    /\ recursive
    /\ Len(files_or_directories) = 2
    /\ Sources = {A \o <<Name("model", ".obj")>>,
                  A \o <<Name("other", ".obj")>>,
                  A \o <<Dir("sub"), Name("model", ".obj")>>}

(* C9: with an out-dir every output path of the mapping is out-dir         *)
(* followed by one or more relative parts, also for a source of a          *)
(* duplicate group whose settled depth reaches its number of parts.        *)
C9_OutputsUnderOutDir ==
    (out_dir # None /\ Resolved)
    => \A p \in Sources : Under(OutputOf(p), out_dir)

(* C10: every import follows a scene reset of the same iteration, made     *)
(* once the previous source was through; an export is invoked only for the *)
(* source whose import just succeeded, with the output path the mapping    *)
(* gives that source; at most one source is in flight at any time.         *)
C10_CapabilityOrder ==
    /\ [](Cardinality(import_ok \ ExportedSources) <= 1)
    /\ [][ /\ (import_calls' # import_calls)
                => /\ input_path \notin DOMAIN import_calls
                   /\ resets = Cardinality(DOMAIN import_calls) + 1
                   /\ import_ok \subseteq ExportedSources
                   /\ DOMAIN import_calls' = DOMAIN import_calls \cup {input_path}
           /\ (export_calls' # export_calls)
                => /\ input_path \in import_ok
                   /\ input_path \notin ExportedSources
                   /\ resets = Cardinality(DOMAIN import_calls)
                   /\ export_calls' =
                        export_calls \cup {<<input_path, OutputOf(input_path)>>}
           /\ (resets' # resets)
                => import_ok \subseteq ExportedSources ]_vars

C10_Witness ==
    /\ pc = "loop"
    /\ \E p \in DOMAIN errors : errors[p] = "import"
    /\ \E c \in export_calls : c[1] \in export_ok /\ c[2] = OutputOf(c[1])
    /\ resets = 3
    /\ settled # EmptyDict
====
